---- MODULE Spec2Model ----
(***************************************************************************)
(* A model of speculate's credential pipeline: the Lifetime and Mfa        *)
(* configuration objects of package executors and the Creds value type of  *)
(* package creds.  Go strings are sequences of one-character strings, so   *)
(* that splitting, matching, formatting and sorting are computed.          *)
(***************************************************************************)
EXTENDS Integers, Sequences, FiniteSets, TLC

VARIABLES
    lifetimeInt,   \* Lifetime.lifetimeInt
    lastAccepted,  \* history: the value of the last SetLifetime that returned nil
    useMfa,        \* Mfa.useMfa
    mfaSerial,     \* Mfa.mfaSerial
    mfaCode,       \* Mfa.mfaCode
    mfaPrompt,     \* Mfa.mfaPrompt: "nil", "default" or "custom"
    callerArn,     \* environment: the ARN GetCallerIdentity reports
    input,         \* the function of Creds to apply, and its arguments
    lastSetMfa,    \* history: the argument of the most recent SetMfa (FALSE before)
    latched,       \* history: a GetMfa since the most recent SetMfa saw a code
    serialHist,    \* history: GetMfaSerial results since the last SetMfaSerial
    last,          \* the last call: its name, argument, result, error
    steps,         \* number of calls made so far
    budget         \* number of calls explored on one object

vars == <<lifetimeInt, lastAccepted, useMfa, mfaSerial, mfaCode, mfaPrompt,
          callerArn, input, lastSetMfa, latched, serialHist, last, steps, budget>>

lifetimeVars == <<lifetimeInt, lastAccepted>>
mfaVars == <<useMfa, mfaSerial, mfaCode, mfaPrompt, lastSetMfa, latched, serialHist>>

\* Longest sequence of calls explored on one Lifetime.
MaxLifetimeCalls == 4

\* Longest sequence of calls explored on one Mfa.
MaxMfaCalls == 3

\* Longest sequence explored of SetMfa, SetMfaCode and GetMfa alone.
MaxUseMfaCalls == 5

\* A call record; ret and arg are read only after op is known.
Call(op, arg, ret, err, lookups, prompts) ==
    [op |-> op, arg |-> arg, ret |-> ret, err |-> err,
     lookups |-> lookups, prompts |-> prompts]

NoCall == Call("none", <<>>, <<>>, "nil", 0, 0)

----------------------------------------------------------------------------
(* Go strings and the standard-library functions the code calls on them *)

Digits == {"0", "1", "2", "3", "4", "5", "6", "7", "8", "9"}
Letters ==
    {"a", "b", "c", "d", "e", "f", "g", "h", "i", "j", "k", "l", "m", "n", "o", "p", "q", "r", "s", "t", "u", "v", "w", "x", "y", "z",
     "A", "B", "C", "D", "E", "F", "G", "H", "I", "J", "K", "L", "M", "N", "O", "P", "Q", "R", "S", "T", "U", "V", "W", "X", "Y", "Z"}

\* \w of Go's regexp (RE2, ASCII): [0-9A-Za-z_]
WordChars == Digits \cup Letters \cup {"_"}

\* The class [\w+=,.@-] of mfaArnRegexString and iamEntityRegexString
EntityChars == WordChars \cup {"+", "=", ",", ".", "@", "-"}

\* unicode.IsSpace restricted to ASCII
SpaceChars == {" ", "\t", "\n", "\r"}

\* The printable ASCII characters in code order, starting at 32 (the double
\* quote, the backslash and the backtick, which no string here holds, are
\* spelled out).
Ascii ==
    <<" ", "!", "dquote", "#", "$", "%", "&", "'", "(", ")", "*", "+", ",", "-", ".", "/", "0", "1", "2", "3", "4", "5", "6", "7", "8", "9", ":", ";", "<", "=", ">", "?",
      "@", "A", "B", "C", "D", "E", "F", "G", "H", "I", "J", "K", "L", "M", "N", "O", "P", "Q", "R", "S", "T", "U", "V", "W", "X", "Y", "Z", "[", "bslash", "]", "^", "_",
      "btick", "a", "b", "c", "d", "e", "f", "g", "h", "i", "j", "k", "l", "m", "n", "o", "p", "q", "r", "s", "t", "u", "v", "w", "x", "y", "z", "{", "|", "}", "~">>

\* The byte value of a printable character (Ascii[1] is the space, byte 32).
Ord(c) == 31 + CHOOSE i \in 1..Len(Ascii) : Ascii[i] = c

RECURSIVE Cat(_)
\* The concatenation of a sequence of strings (fmt.Sprintf with only %s verbs).
Cat(ss) == IF ss = <<>> THEN <<>> ELSE Head(ss) \o Cat(Tail(ss))

Drop(s, n) == SubSeq(s, n + 1, Len(s))

\* strings.HasPrefix
HasPrefix(s, p) == Len(p) <= Len(s) /\ SubSeq(s, 1, Len(p)) = p

\* strings.Index, 1-based; 0 when sub does not occur in s.
Index(s, sub) ==
    LET hits == {i \in 1..(Len(s) - Len(sub) + 1) :
                    SubSeq(s, i, i + Len(sub) - 1) = sub}
    IN  IF hits = {} THEN 0 ELSE CHOOSE i \in hits : \A j \in hits : i <= j

\* strings.Contains
Contains(s, sub) == Index(s, sub) # 0

\* strings.Replace(s, old, new, 1)
ReplaceFirst(s, old, new) ==
    LET i == Index(s, old)
    IN  IF i = 0 THEN s
        ELSE SubSeq(s, 1, i - 1) \o new \o Drop(s, i + Len(old) - 1)

RECURSIVE Split(_, _)
\* strings.Split for a non-empty separator
Split(s, sep) ==
    LET i == Index(s, sep)
    IN  IF i = 0 THEN <<s>>
        ELSE <<SubSeq(s, 1, i - 1)>> \o Split(Drop(s, i + Len(sep) - 1), sep)

RECURSIVE TrimLeft(_)
TrimLeft(s) ==
    IF s # <<>> /\ Head(s) \in SpaceChars THEN TrimLeft(Tail(s)) ELSE s

RECURSIVE TrimRight(_)
TrimRight(s) ==
    IF s # <<>> /\ s[Len(s)] \in SpaceChars
    THEN TrimRight(SubSeq(s, 1, Len(s) - 1)) ELSE s

\* strings.TrimSpace
TrimSpace(s) == TrimRight(TrimLeft(s))

RECURSIVE StringLess(_, _)
\* The < of Go on strings: byte-wise lexicographic order
StringLess(a, b) ==
    IF b = <<>> THEN FALSE
    ELSE IF a = <<>> THEN TRUE
    ELSE IF Head(a) # Head(b) THEN Ord(Head(a)) < Ord(Head(b))
    ELSE StringLess(Tail(a), Tail(b))

\* F(v), with v evaluated once however often F reads its argument.
Bind(v, F(_)) == CHOOSE r \in {F(x) : x \in {v}} : TRUE

\* s inserted into the sorted sequence of strings, after its last element
\* that is less than s.
InsertSorted(s, sorted) ==
    LET before == {i \in 1..Len(sorted) : StringLess(sorted[i], s)}
        n == Cardinality(before)
    IN  SubSeq(sorted, 1, n) \o <<s>> \o Drop(sorted, n)

RECURSIVE SortStrings(_)
\* sort.Strings
SortStrings(ss) ==
    IF ss = <<>> THEN <<>>
    ELSE Bind(SortStrings(Tail(ss)), LAMBDA sorted : InsertSorted(Head(ss), sorted))

AllIn(s, class) == \A i \in 1..Len(s) : s[i] \in class

\* String literals of the source and of the inputs tried.
EnvAccessKeyID ==
    <<"A", "W", "S", "_", "A", "C", "C", "E", "S", "S", "_", "K", "E", "Y",
      "_", "I", "D">>
EnvSecretAccessKey ==
    <<"A", "W", "S", "_", "S", "E", "C", "R", "E", "T", "_", "A", "C", "C",
      "E", "S", "S", "_", "K", "E", "Y">>
EnvSessionToken ==
    <<"A", "W", "S", "_", "S", "E", "S", "S", "I", "O", "N", "_", "T", "O",
      "K", "E", "N">>
EnvSecurityToken ==
    <<"A", "W", "S", "_", "S", "E", "C", "U", "R", "I", "T", "Y", "_", "T",
      "O", "K", "E", "N">>
EnvDefaultRegion ==
    <<"A", "W", "S", "_", "D", "E", "F", "A", "U", "L", "T", "_", "R", "E",
      "G", "I", "O", "N">>
StrExport == <<"e", "x", "p", "o", "r", "t", " ">>
StrEq == <<"=">>
StrColon == <<":">>
StrSlash == <<"/">>
StrArn == <<"a", "r", "n", ":">>
StrArnAws == <<"a", "r", "n", ":", "a", "w", "s">>
StrUsGov == <<"-", "u", "s", "-", "g", "o", "v">>
StrIam == <<":", "i", "a", "m", ":", ":">>
StrSts == <<":", "s", "t", "s", ":", ":">>
StrRole == <<":", "r", "o", "l", "e", "/">>
StrUser == <<":", "u", "s", "e", "r", "/">>
StrMfa == <<":", "m", "f", "a", "/">>
StrAssumedRole ==
    <<":", "a", "s", "s", "u", "m", "e", "d", "-", "r", "o", "l", "e", "/">>
PartAws == <<"a", "w", "s">>
PartGov == <<"a", "w", "s", "-", "u", "s", "-", "g", "o", "v">>
PartCn == <<"a", "w", "s", "-", "c", "n">>
Acct1 == <<"1", "1", "1", "1", "1", "1", "1", "1", "1", "1", "1", "1">>
Acct2 == <<"2", "2", "2", "2", "2", "2", "2", "2", "2", "2", "2", "2">>
AcctShort == <<"1", "2", "3">>
AcctLong ==
    <<"1", "2", "3", "4", "5", "6", "7", "8", "9", "0", "1", "2", "3">>
NameAlice == <<"a", "l", "i", "c", "e">>
NameBob == <<"b", "o", "b">>
NameDotted ==
    <<"a", ".", "b", "@", "c", "-", "d", "+", "e", "=", "f", ",", "g", "_",
      "h">>
NameSpaced == <<"a", "l", " ", "i", "c", "e">>
NameDeploy == <<"d", "e", "p", "l", "o", "y">>
NameOps == <<"o", "p", "s">>
ValAK == <<"A", "K">>
ValSK == <<"S", "K">>
ValST == <<"S", "T">>
ValST2 == <<"Z", "T">>
ValRegion == <<"u", "s", "-", "w", "e", "s", "t", "-", "2">>
Code123456 == <<"1", "2", "3", "4", "5", "6">>
Code000000 == <<"0", "0", "0", "0", "0", "0">>
Code12345 == <<"1", "2", "3", "4", "5">>
Code1234567 == <<"1", "2", "3", "4", "5", "6", "7">>
CodeAbcdef == <<"a", "b", "c", "d", "e", "f">>
Code12345x == <<"1", "2", "3", "4", "5", "x">>

----------------------------------------------------------------------------
(* executors.Lifetime *)

MinLifetime == 900
MaxLifetime == 3600
DefaultLifetime == 3600

\* The int64 arguments tried: both edges of the range from each side.
LifetimeInputs == {-1, 0, 1, 899, 900, 901, 1800, 3599, 3600, 3601, 86400}

\* Mutation: the lower edge of the range is rejected.
SetLifetimeRejectsEdge(val) == val # 0 /\ (val <= MinLifetime \/ val > MaxLifetime)

SetLifetimeRejects(val) == val # 0 /\ (val < MinLifetime \/ val > MaxLifetime)

SetLifetimeResult(l, val) ==
    IF SetLifetimeRejects(val)
    THEN [l |-> l, err |-> "OutOfRange"]
    ELSE [l |-> val, err |-> "nil"]

GetLifetimeResult(l) ==
    LET stored == IF l = 0 THEN DefaultLifetime ELSE l
    IN  [l |-> stored, ret |-> stored]

LifetimeInit ==
    /\ lifetimeInt = 0
    /\ lastAccepted = 0

SetLifetime ==
    \E val \in LifetimeInputs :
        \E r \in {SetLifetimeResult(lifetimeInt, val)} :
        /\ steps < budget
        /\ lifetimeInt' = r.l
        /\ lastAccepted' = IF r.err = "nil" THEN val ELSE lastAccepted
        /\ last' = Call("SetLifetime", [val |-> val, self |-> lifetimeInt], 0,
                        r.err, 0, 0)
        /\ steps' = steps + 1
        /\ UNCHANGED <<mfaVars, callerArn, input, budget>>

GetLifetime ==
    \E r \in {GetLifetimeResult(lifetimeInt)} :
    /\ steps < budget
    /\ lifetimeInt' = r.l
    /\ last' = Call("GetLifetime", 0, r.ret, "nil", 0, 0)
    /\ steps' = steps + 1
    /\ UNCHANGED <<lastAccepted, mfaVars, callerArn, input, budget>>

----------------------------------------------------------------------------
(* executors.Mfa *)

\* mfaCodeRegex, ^\d{6}$
MatchMfaCode(s) == Len(s) = 6 /\ AllIn(s, Digits)

\* The account segment of mfaArnRegexString, \d+
MatchArnAccount(s) == Len(s) >= 1 /\ AllIn(s, Digits)

\* The device segment of mfaArnRegexString, [\w+=,.@-]+
MatchEntity(s) == Len(s) >= 1 /\ AllIn(s, EntityChars)

\* s matches ^arn:aws(?:-us-gov)?:iam::<account>:mfa/<device>$, the account
\* segment being any split point that Account accepts.
MatchArnWith(s, Account(_)) ==
    \E gov \in {<<>>, StrUsGov} :
        LET prefix == StrArnAws \o gov \o StrIam
            rest == Drop(s, Len(prefix))
        IN  /\ HasPrefix(s, prefix)
            /\ \E n \in 1..Len(rest) :
                /\ Account(SubSeq(rest, 1, n))
                /\ HasPrefix(Drop(rest, n), StrMfa)
                /\ MatchEntity(Drop(rest, n + Len(StrMfa)))

\* mfaArnRegex.MatchString
MatchMfaArn(s) == MatchArnWith(s, MatchArnAccount)

MfaArnOf(part, acct, name) == Cat(<<StrArn, part, StrIam, acct, StrMfa, name>>)
UserArnOf(part, acct, name) == Cat(<<StrArn, part, StrIam, acct, StrUser, name>>)

\* ARNs that GetCallerIdentity may report: a user and an assumed role.
CallerArns ==
    { UserArnOf(PartAws, Acct1, NameAlice),
      Cat(<<StrArn, PartAws, StrSts, Acct1, StrAssumedRole, NameOps,
            StrSlash, NameBob>>) }

\* Outcomes of one GetCallerIdentity round trip: success or an API error.
IdentityOutcomes == {"ok", "RequestError"}

\* Arguments tried for SetMfaSerial.
SerialInputs ==
    { <<>>,
      MfaArnOf(PartAws, Acct1, NameAlice),
      MfaArnOf(PartGov, Acct2, NameDotted),
      MfaArnOf(PartAws, AcctShort, NameAlice),
      MfaArnOf(PartAws, AcctLong, NameAlice),
      MfaArnOf(PartAws, <<>>, NameAlice),
      MfaArnOf(PartAws, Acct1, <<>>),
      MfaArnOf(PartAws, Acct1, NameSpaced),
      MfaArnOf(PartCn, Acct1, NameAlice),
      UserArnOf(PartAws, Acct1, NameAlice),
      <<" ">> \o MfaArnOf(PartAws, Acct1, NameAlice),
      MfaArnOf(PartAws, Acct1, NameAlice) \o <<"\n">> }

\* Arguments tried for SetMfaCode.
CodeInputs ==
    {<<>>, Code123456, Code000000, Code12345, Code1234567, CodeAbcdef,
     Code12345x}

\* What the user types, or what a custom MfaPrompt returns.
PromptTexts == {<<>>, Code12345, <<" ">> \o Code123456 \o <<" ", "\r">>}

\* One Prompt call: the text it yields, or its failure.
PromptOutcomes ==
    [text : PromptTexts, fail : {FALSE}] \cup [text : {<<>>}, fail : {TRUE}]

\* An optional string (a Go *string): <<>> is nil, <<s>> points at s.
NilPtr == <<>>
Ptr(s) == <<s>>

\* The requests tried for configureMfa: the two STS inputs, blank or already
\* carrying MFA fields, and a value of another type.
Requests ==
    [kind : {"GetSessionTokenInput", "GetCallerIdentityInput"},
     TokenCode : {NilPtr}, SerialNumber : {NilPtr}]
    \cup
    [kind : {"AssumeRoleInput"},
     TokenCode : {Ptr(Code000000)},
     SerialNumber : {Ptr(MfaArnOf(PartAws, Acct2, NameBob))}]

\* The Mfa struct as a value.
MfaOf(u, s, c, p) == [useMfa |-> u, mfaSerial |-> s, mfaCode |-> c, mfaPrompt |-> p]

Self == MfaOf(useMfa, mfaSerial, mfaCode, mfaPrompt)

SetMfaResult(m, val) == [m |-> [m EXCEPT !.useMfa = val], err |-> "nil"]

SetMfaSerialResult(m, val) ==
    IF val = <<>> \/ MatchMfaArn(val)
    THEN [m |-> [m EXCEPT !.mfaSerial = val], err |-> "nil"]
    ELSE [m |-> m, err |-> "MalformedSerial"]

SetMfaCodeResult(m, val) ==
    IF val = <<>> \/ MatchMfaCode(val)
    THEN [m |-> [m EXCEPT !.mfaCode = val], err |-> "nil"]
    ELSE [m |-> m, err |-> "MalformedCode"]

SetMfaPromptResult(m, val) == [m |-> [m EXCEPT !.mfaPrompt = val], err |-> "nil"]

\* Mutation: GetMfa as a pure read, which stores nothing.
GetMfaResultPure(m) == [m |-> m, ret |-> m.useMfa \/ m.mfaCode # <<>>]

GetMfaResult(m) ==
    LET m1 == IF ~m.useMfa /\ m.mfaCode # <<>>
              THEN [m EXCEPT !.useMfa = TRUE] ELSE m
    IN  [m |-> m1, ret |-> m1.useMfa]

\* Creds.MfaArn on the caller's identity
MfaArnResult(arn, idOut) ==
    IF idOut # "ok" THEN [ret |-> <<>>, err |-> idOut, lookups |-> 1]
    ELSE IF ~Contains(arn, StrUser)
    THEN [ret |-> <<>>, err |-> "NotAUser", lookups |-> 1]
    ELSE [ret |-> ReplaceFirst(arn, StrUser, StrMfa), err |-> "nil", lookups |-> 1]

\* Mutation: the resolved serial is returned but not stored.
GetMfaSerialResultUncached(m, arn, idOut) ==
    IF m.mfaSerial = <<>>
    THEN LET r == MfaArnResult(arn, idOut)
         IN  [m |-> m, ret |-> r.ret, err |-> r.err, lookups |-> r.lookups]
    ELSE [m |-> m, ret |-> m.mfaSerial, err |-> "nil", lookups |-> 0]

GetMfaSerialResult(m, arn, idOut) ==
    IF m.mfaSerial = <<>>
    THEN LET r == MfaArnResult(arn, idOut)
             m1 == [m EXCEPT !.mfaSerial = r.ret]
         IN  IF r.err # "nil"
             THEN [m |-> m1, ret |-> <<>>, err |-> r.err, lookups |-> r.lookups]
             ELSE [m |-> m1, ret |-> m1.mfaSerial, err |-> "nil",
                   lookups |-> r.lookups]
    ELSE [m |-> m, ret |-> m.mfaSerial, err |-> "nil", lookups |-> 0]

GetMfaPromptResult(m) ==
    LET m1 == IF m.mfaPrompt = "nil" THEN [m EXCEPT !.mfaPrompt = "default"] ELSE m
    IN  [m |-> m1, ret |-> m1.mfaPrompt]

\* MfaPrompt.Prompt: DefaultMfaPrompt reads a line up to '\n' (an error when
\* the input ends first) and trims it; a custom prompt returns what it likes.
PromptResult(prompt, out) ==
    IF out.fail THEN [ret |-> <<>>, err |-> "PromptError"]
    ELSE IF prompt = "default"
    THEN [ret |-> TrimSpace(out.text \o <<"\n">>), err |-> "nil"]
    ELSE [ret |-> out.text, err |-> "nil"]

GetMfaCodeResult(m, out) ==
    IF m.mfaCode = <<>>
    THEN LET p == GetMfaPromptResult(m)
             r == PromptResult(p.ret, out)
         IN  IF r.err # "nil"
             THEN [m |-> p.m, ret |-> <<>>, err |-> r.err, prompts |-> 1]
             ELSE [m |-> [p.m EXCEPT !.mfaCode = r.ret], ret |-> r.ret,
                   err |-> "nil", prompts |-> 1]
    ELSE [m |-> m, ret |-> m.mfaCode, err |-> "nil", prompts |-> 0]

SerialEntry(r) == [ret |-> r.ret, err |-> r.err, lookups |-> r.lookups]

\* Mutation: the GetMfa test is skipped and the request always configured.
configureMfaResultAlways(m, req, out, arn, idOut) ==
    LET c == GetMfaCodeResult(m, out)
        s == GetMfaSerialResult(c.m, arn, idOut)
    IN  IF c.err # "nil"
        THEN [m |-> c.m, req |-> req, err |-> c.err, lookups |-> 0,
              prompts |-> c.prompts, serialCalls |-> <<>>]
        ELSE IF s.err # "nil"
        THEN [m |-> s.m, req |-> req, err |-> s.err, lookups |-> s.lookups,
              prompts |-> c.prompts, serialCalls |-> <<SerialEntry(s)>>]
        ELSE [m |-> s.m,
              req |-> [req EXCEPT !.TokenCode = Ptr(c.ret),
                                  !.SerialNumber = Ptr(s.ret)],
              err |-> "nil", lookups |-> s.lookups, prompts |-> c.prompts,
              serialCalls |-> <<SerialEntry(s)>>]

\* configureMfa; serialCalls lists the results of the GetMfaSerial calls made.
configureMfaResult(m, req, out, arn, idOut) ==
    LET g == GetMfaResult(m)
        c == GetMfaCodeResult(g.m, out)
        s == GetMfaSerialResult(c.m, arn, idOut)
    IN  IF ~g.ret
        THEN [m |-> g.m, req |-> req, err |-> "nil", lookups |-> 0, prompts |-> 0,
              serialCalls |-> <<>>]
        ELSE IF c.err # "nil"
        THEN [m |-> c.m, req |-> req, err |-> c.err, lookups |-> 0,
              prompts |-> c.prompts, serialCalls |-> <<>>]
        ELSE IF s.err # "nil"
        THEN [m |-> s.m, req |-> req, err |-> s.err, lookups |-> s.lookups,
              prompts |-> c.prompts, serialCalls |-> <<SerialEntry(s)>>]
        ELSE IF req.kind \in {"AssumeRoleInput", "GetSessionTokenInput"}
        THEN [m |-> s.m,
              req |-> [req EXCEPT !.TokenCode = Ptr(c.ret),
                                  !.SerialNumber = Ptr(s.ret)],
              err |-> "nil", lookups |-> s.lookups, prompts |-> c.prompts,
              serialCalls |-> <<SerialEntry(s)>>]
        ELSE [m |-> s.m, req |-> req, err |-> "UnsupportedRequestType",
              lookups |-> s.lookups, prompts |-> c.prompts,
              serialCalls |-> <<SerialEntry(s)>>]

MfaInit ==
    /\ useMfa = FALSE
    /\ mfaSerial = <<>>
    /\ mfaCode = <<>>
    /\ mfaPrompt = "nil"
    /\ lastSetMfa = FALSE
    /\ latched = FALSE
    /\ serialHist = <<>>

\* The struct fields after a call that returned the Mfa value m.
Store(m) ==
    /\ useMfa' = m.useMfa
    /\ mfaSerial' = m.mfaSerial
    /\ mfaCode' = m.mfaCode
    /\ mfaPrompt' = m.mfaPrompt

Tick ==
    /\ steps < budget
    /\ steps' = steps + 1
    /\ UNCHANGED <<lifetimeVars, callerArn, input, budget>>

SetMfa ==
    \E val \in BOOLEAN :
        \E r \in {SetMfaResult(Self, val)} :
        /\ Tick
        /\ Store(r.m)
        /\ lastSetMfa' = val
        /\ latched' = FALSE
        /\ last' = Call("SetMfa", val, <<>>, r.err, 0, 0)
        /\ UNCHANGED serialHist

SetMfaSerial ==
    \E val \in SerialInputs :
        \E r \in {SetMfaSerialResult(Self, val)} :
        /\ Tick
        /\ Store(r.m)
        /\ serialHist' = <<>>
        /\ last' = Call("SetMfaSerial", [val |-> val, self |-> Self], <<>>, r.err,
                        0, 0)
        /\ UNCHANGED <<lastSetMfa, latched>>

SetMfaCode ==
    \E val \in CodeInputs :
        \E r \in {SetMfaCodeResult(Self, val)} :
        /\ Tick
        /\ Store(r.m)
        /\ last' = Call("SetMfaCode", [val |-> val, self |-> Self], <<>>, r.err,
                        0, 0)
        /\ UNCHANGED <<lastSetMfa, latched, serialHist>>

SetMfaPrompt ==
    \E val \in {"nil", "custom"} :
        \E r \in {SetMfaPromptResult(Self, val)} :
        /\ Tick
        /\ Store(r.m)
        /\ last' = Call("SetMfaPrompt", val, <<>>, r.err, 0, 0)
        /\ UNCHANGED <<lastSetMfa, latched, serialHist>>

GetMfa ==
    \E r \in {GetMfaResult(Self)} :
    /\ Tick
    /\ Store(r.m)
    /\ latched' = (latched \/ mfaCode # <<>>)
    /\ last' = Call("GetMfa", [self |-> Self], r.ret, "nil", 0, 0)
    /\ UNCHANGED <<lastSetMfa, serialHist>>

GetMfaSerial ==
    \E idOut \in IdentityOutcomes :
        \E r \in {GetMfaSerialResult(Self, callerArn, idOut)} :
        /\ Tick
        /\ Store(r.m)
        /\ serialHist' = Append(serialHist, SerialEntry(r))
        /\ last' = Call("GetMfaSerial", <<>>, r.ret, r.err, r.lookups, 0)
        /\ UNCHANGED <<lastSetMfa, latched>>

GetMfaCode ==
    \E out \in PromptOutcomes :
        \E r \in {GetMfaCodeResult(Self, out)} :
        /\ Tick
        /\ Store(r.m)
        /\ last' = Call("GetMfaCode", <<>>, r.ret, r.err, 0, r.prompts)
        /\ UNCHANGED <<lastSetMfa, latched, serialHist>>

GetMfaPrompt ==
    \E r \in {GetMfaPromptResult(Self)} :
    /\ Tick
    /\ Store(r.m)
    /\ last' = Call("GetMfaPrompt", <<>>, r.ret, "nil", 0, 0)
    /\ UNCHANGED <<lastSetMfa, latched, serialHist>>

configureMfa ==
    \E req \in Requests, out \in PromptOutcomes, idOut \in IdentityOutcomes :
        \E r \in {configureMfaResult(Self, req, out, callerArn, idOut)} :
        /\ Tick
        /\ Store(r.m)
        /\ latched' = (latched \/ mfaCode # <<>>)
        /\ serialHist' = serialHist \o r.serialCalls
        /\ last' = Call("configureMfa", [req |-> req, self |-> Self], r.req, r.err,
                        r.lookups, r.prompts)
        /\ UNCHANGED lastSetMfa

----------------------------------------------------------------------------
(* creds.Creds *)

\* A Go map[string]string is a function on the set of its keys; reading an
\* absent key yields the empty string.
MapGet(m, k) == IF k \in DOMAIN m THEN m[k] ELSE <<>>

MapPut(m, k, v) == [j \in DOMAIN m \cup {k} |-> IF j = k THEN v ELSE m[j]]

EmptyMap == [j \in {} |-> <<>>]

\* All orders in which a range loop may visit the keys of a map.
Orders(keys) ==
    {o \in [1..Cardinality(keys) -> keys] :
        \A i, j \in DOMAIN o : i # j => o[i] # o[j]}

CredsOf(ak, sk, st, rg) ==
    [AccessKey |-> ak, SecretKey |-> sk, SessionToken |-> st, Region |-> rg]

EmptyCreds == CredsOf(<<>>, <<>>, <<>>, <<>>)

\* Translations["envvar"]
EnvTranslations ==
    [k \in {EnvAccessKeyID, EnvSecretAccessKey, EnvSessionToken,
            EnvSecurityToken, EnvDefaultRegion} |->
        CASE k = EnvAccessKeyID -> "AccessKey"
          [] k = EnvSecretAccessKey -> "SecretKey"
          [] k = EnvSessionToken -> "SessionToken"
          [] k = EnvSecurityToken -> "SessionToken"
          [] k = EnvDefaultRegion -> "Region"]

\* The orders in which a range loop may visit Translations["envvar"].
EnvOrders == Orders(DOMAIN EnvTranslations)

\* Mutation: the required keys are checked in another order.
RequiredSwapped == <<"SecretKey", "AccessKey", "SessionToken">>

Required == <<"AccessKey", "SecretKey", "SessionToken">>

RECURSIVE FirstMissing(_, _)
\* The first key of keys that argCreds lacks or maps to "", or "" when none.
FirstMissing(keys, argCreds) ==
    IF keys = <<>> THEN ""
    ELSE IF Head(keys) \notin DOMAIN argCreds \/ argCreds[Head(keys)] = <<>>
         THEN Head(keys)
         ELSE FirstMissing(Tail(keys), argCreds)

MissingKeyError(key) == "missing required key for Creds: " \o key

NewResult(argCreds) ==
    LET key == FirstMissing(Required, argCreds)
    IN  IF key # ""
        THEN [c |-> EmptyCreds, err |-> MissingKeyError(key)]
        ELSE [c |-> CredsOf(MapGet(argCreds, "AccessKey"),
                            MapGet(argCreds, "SecretKey"),
                            MapGet(argCreds, "SessionToken"),
                            MapGet(argCreds, "Region")),
              err |-> "nil"]

\* One iteration of the loop of NewFromEnv, on the variable k.
EnvStep(k, env, envCreds) ==
    LET v == EnvTranslations[k]
    IN  IF MapGet(envCreds, v) = <<>>
        THEN MapPut(envCreds, v, env[k])
        ELSE envCreds

RECURSIVE EnvLoop(_, _)
\* The map the loop of NewFromEnv builds over Translations["envvar"],
\* visited in order.
EnvLoop(order, env) ==
    IF order = <<>> THEN EmptyMap
    ELSE Bind(EnvLoop(SubSeq(order, 1, Len(order) - 1), env),
              LAMBDA envCreds : EnvStep(order[Len(order)], env, envCreds))

NewFromEnvResult(env, order) == Bind(EnvLoop(order, env), NewResult)

toMap(c) ==
    [f \in {"AccessKey", "SecretKey", "SessionToken", "Region"} |-> c[f]]

Translate(c, dictionary) ==
    [k \in DOMAIN dictionary |-> MapGet(toMap(c), dictionary[k])]

ExportLine(k, v) == Cat(<<StrExport, k, StrEq, v>>)

RECURSIVE EnvLines(_, _)
\* The loop of ToEnvVars over envCreds, visited in order.
EnvLines(order, envCreds) ==
    IF order = <<>> THEN <<>>
    ELSE LET k == Head(order)
             rest == EnvLines(Tail(order), envCreds)
         IN  IF envCreds[k] # <<>>
             THEN <<ExportLine(k, envCreds[k])>> \o rest
             ELSE rest

\* Mutation: the lines are returned in the order the loop made them.
ToEnvVarsResultUnsorted(c, order) ==
    Bind(Translate(c, EnvTranslations), LAMBDA envCreds : EnvLines(order, envCreds))

ToEnvVarsResult(c, order) ==
    Bind(Translate(c, EnvTranslations),
         LAMBDA envCreds : SortStrings(EnvLines(order, envCreds)))

\* GetCallerIdentityOutput
IdentityOf(acct, arn) == [Account |-> acct, Arn |-> arn]

identityResult(id, out) ==
    IF out = "ok" THEN [id |-> id, err |-> "nil"]
    ELSE [id |-> IdentityOf(<<>>, <<>>), err |-> out]

\* Mutation: the first colon-delimited segment is taken.
partitionResultFirst(id, out) ==
    LET r == identityResult(id, out)
    IN  IF r.err # "nil" THEN [ret |-> <<>>, err |-> r.err]
        ELSE [ret |-> Split(r.id.Arn, StrColon)[1], err |-> "nil"]

partitionResult(id, out) ==
    LET r == identityResult(id, out)
    IN  IF r.err # "nil" THEN [ret |-> <<>>, err |-> r.err]
        ELSE [ret |-> Split(r.id.Arn, StrColon)[2], err |-> "nil"]

RoleArnOf(partition, accountID, role) ==
    Cat(<<StrArn, partition, StrIam, accountID, StrRole, role>>)

\* NextRoleArn with the outcomes out1 and out2 of the round trips it makes.
NextRoleArnResult(role, inputAccountID, id, out1, out2) ==
    IF role = <<>>
    THEN [ret |-> <<>>, err |-> "role name cannot be empty", lookups |-> 0]
    ELSE LET i == identityResult(id, out1)
             p == partitionResult(id, out2)
             accountID == IF inputAccountID = <<>> THEN i.id.Account
                          ELSE inputAccountID
         IN  IF i.err # "nil" THEN [ret |-> <<>>, err |-> i.err, lookups |-> 1]
             ELSE IF p.err # "nil"
             THEN [ret |-> <<>>, err |-> p.err, lookups |-> 2]
             ELSE [ret |-> RoleArnOf(p.ret, accountID, role), err |-> "nil",
                   lookups |-> 2]

\* Field maps tried for New: each key absent, empty or set.
FieldMaps ==
    UNION {[keys -> {<<>>, ValAK, ValSK}] :
              keys \in SUBSET {"AccessKey", "SecretKey", "SessionToken", "Region"}}

\* Environments tried for NewFromEnv; an unset variable reads as "".
Environments ==
    {e \in [DOMAIN EnvTranslations -> {<<>>, ValAK, ValST, ValST2}] :
        /\ e[EnvAccessKeyID] \in {<<>>, ValAK}
        /\ e[EnvSecretAccessKey] \in {<<>>, ValAK}
        /\ e[EnvDefaultRegion] \in {<<>>, ValAK}
        /\ e[EnvSessionToken] \in {<<>>, ValST, ValST2}
        /\ e[EnvSecurityToken] \in {<<>>, ValST, ValST2}}

\* Creds tried for ToEnvVars.
CredsInputs ==
    {CredsOf(ak, sk, st, rg) :
        ak \in {<<>>, ValAK}, sk \in {<<>>, ValSK}, st \in {<<>>, ValST},
        rg \in {<<>>, ValRegion}}

\* Caller identities tried for NextRoleArn, by partition and account.
CallerOf(part, acct) == IdentityOf(acct, UserArnOf(part, acct, NameBob))

Partitions == {PartAws, PartGov, PartCn}
Accounts == {Acct1, Acct2}

Callers == {CallerOf(part, acct) : part \in Partitions, acct \in Accounts}

\* The calls tried, one per behaviour.
NewCalls == {[fn |-> "New", arg |-> argCreds] : argCreds \in FieldMaps}

NewFromEnvCalls ==
    {[fn |-> "NewFromEnv", arg |-> [env |-> env, order |-> order]] :
        env \in Environments, order \in EnvOrders}

ToEnvVarsCalls ==
    {[fn |-> "ToEnvVars", arg |-> [c |-> c, order |-> order]] :
        c \in CredsInputs, order \in EnvOrders}

NextRoleArnCalls ==
    {[fn |-> "NextRoleArn",
      arg |-> [role |-> role, inputAccountID |-> inputAccountID, id |-> id,
               out1 |-> out1, out2 |-> out2]] :
        role \in {<<>>, NameDeploy, NameOps},
        inputAccountID \in {<<>>} \cup Accounts,
        id \in Callers, out1 \in IdentityOutcomes, out2 \in IdentityOutcomes}

NoInput == [fn |-> "none", arg |-> <<>>]

\* Each behaviour applies one function of Creds to one input.
CredsTick ==
    /\ steps < budget
    /\ steps' = steps + 1
    /\ UNCHANGED <<lifetimeVars, mfaVars, callerArn, input, budget>>

New ==
    /\ input.fn = "New"
    /\ \E r \in {NewResult(input.arg)} :
           last' = Call("New", input.arg, r.c, r.err, 0, 0)
    /\ CredsTick

NewFromEnv ==
    /\ input.fn = "NewFromEnv"
    /\ \E r \in {NewFromEnvResult(input.arg.env, input.arg.order)} :
           last' = Call("NewFromEnv", input.arg, r.c, r.err, 0, 0)
    /\ CredsTick

ToEnvVars ==
    /\ input.fn = "ToEnvVars"
    /\ last' = Call("ToEnvVars", input.arg,
                    ToEnvVarsResult(input.arg.c, input.arg.order), "nil", 0, 0)
    /\ CredsTick

NextRoleArn ==
    /\ input.fn = "NextRoleArn"
    /\ \E r \in {NextRoleArnResult(input.arg.role, input.arg.inputAccountID,
                                  input.arg.id, input.arg.out1, input.arg.out2)} :
           last' = Call("NextRoleArn", input.arg, r.ret, r.err, r.lookups, 0)
    /\ CredsTick

----------------------------------------------------------------------------
(* Specifications *)

Fresh ==
    /\ LifetimeInit
    /\ MfaInit
    /\ last = NoCall
    /\ steps = 0

\* One Lifetime, any sequence of calls.
LifetimeStart ==
    Fresh /\ callerArn = <<>> /\ input = NoInput /\ budget = MaxLifetimeCalls
LifetimeNext == SetLifetime \/ GetLifetime
SpecLifetime == LifetimeStart /\ [][LifetimeNext]_vars

\* One Mfa, any sequence of calls, under each caller identity.
MfaStart ==
    Fresh /\ callerArn \in CallerArns /\ input = NoInput /\ budget = MaxMfaCalls
MfaNext ==
    \/ SetMfa
    \/ SetMfaSerial
    \/ SetMfaCode
    \/ SetMfaPrompt
    \/ GetMfa
    \/ GetMfaSerial
    \/ GetMfaCode
    \/ GetMfaPrompt
    \/ configureMfa
SpecMfa == MfaStart /\ [][MfaNext]_vars

\* One Mfa on which only SetMfa, SetMfaCode and GetMfa are called.
UseMfaStart ==
    Fresh /\ callerArn = <<>> /\ input = NoInput /\ budget = MaxUseMfaCalls
UseMfaNext == SetMfa \/ SetMfaCode \/ GetMfa
SpecUseMfa == UseMfaStart /\ [][UseMfaNext]_vars

\* The functions of Creds, each applied once to every input tried.
CredsStart ==
    /\ Fresh
    /\ callerArn = <<>>
    /\ budget = 1
    /\ \/ input \in NewCalls
       \/ input \in NewFromEnvCalls
       \/ input \in ToEnvVarsCalls
       \/ input \in NextRoleArnCalls
CredsNext == New \/ NewFromEnv \/ ToEnvVars \/ NextRoleArn
SpecCreds == CredsStart /\ [][CredsNext]_vars

----------------------------------------------------------------------------
(* Properties *)

\* "export <var>=<value>" for each entry of table, in its order, whose field
\* of c is not empty.
LinesFor(c, table) ==
    LET keep == SelectSeq(table, LAMBDA e : c[e.field] # <<>>)
    IN  [i \in 1..Len(keep) |->
            StrExport \o keep[i].var \o StrEq \o c[keep[i].field]]

VarOf(var, field) == [var |-> var, field |-> field]

\* The four variables section 6 of the specification lists as produced,
\* sorted by name.
ListedVars ==
    << VarOf(EnvAccessKeyID, "AccessKey"), VarOf(EnvDefaultRegion, "Region"),
       VarOf(EnvSecretAccessKey, "SecretKey"),
       VarOf(EnvSessionToken, "SessionToken") >>

\* The five variables of the envvar table, sorted by name.
TableVars ==
    << VarOf(EnvAccessKeyID, "AccessKey"), VarOf(EnvDefaultRegion, "Region"),
       VarOf(EnvSecretAccessKey, "SecretKey"),
       VarOf(EnvSecurityToken, "SessionToken"),
       VarOf(EnvSessionToken, "SessionToken") >>

\* C1 as claimed: ToEnvVars returns exactly the lines of the four variables
\* AWS_ACCESS_KEY_ID, AWS_DEFAULT_REGION, AWS_SECRET_ACCESS_KEY and
\* AWS_SESSION_TOKEN whose field is not empty, sorted, and no other line.
C1_FourVariables ==
    last.op = "ToEnvVars" => last.ret = LinesFor(last.arg.c, ListedVars)

\* C1 amended: ToEnvVars returns exactly one line for each of the five
\* variables of the envvar table whose field is not empty, AWS_SECURITY_TOKEN
\* (carrying SessionToken) among them, sorted by variable name, whatever the
\* order the table was visited in.
C1_TableVariables ==
    last.op = "ToEnvVars" => last.ret = LinesFor(last.arg.c, TableVars)

\* C1 witness: the Creds of the claim's example, for which four lines, not
\* three, are returned, from a loop that did not visit the table in order.
C1_Witness ==
    /\ last.op = "ToEnvVars"
    /\ last.arg.c = CredsOf(ValAK, ValSK, ValST, <<>>)
    /\ last.arg.order[1] = EnvSessionToken
    /\ Len(last.ret) = 4
    /\ last.ret[3] = StrExport \o EnvSecurityToken \o StrEq \o ValST

\* C2 as claimed: whenever AWS_SESSION_TOKEN is not empty, the Creds that
\* NewFromEnv returns carry its value as SessionToken.
C2_SessionTokenPreferred ==
    ( /\ last.op = "NewFromEnv"
      /\ last.err = "nil"
      /\ last.arg.env[EnvSessionToken] # <<>> )
    => last.ret.SessionToken = last.arg.env[EnvSessionToken]

Has(m, k) == k \in DOMAIN m /\ m[k] # <<>>

\* C3: New succeeds exactly when AccessKey, SecretKey and SessionToken are
\* present and not empty, then returns the values of the map (Region empty
\* when absent), and otherwise names the first required key that is absent
\* or empty.
C3_NewContract ==
    last.op = "New" =>
        LET m == last.arg IN
        /\ (last.err = "nil") <=>
               (Has(m, "AccessKey") /\ Has(m, "SecretKey") /\ Has(m, "SessionToken"))
        /\ last.err = "nil" =>
               /\ last.ret.AccessKey = m["AccessKey"]
               /\ last.ret.SecretKey = m["SecretKey"]
               /\ last.ret.SessionToken = m["SessionToken"]
               /\ last.ret.Region = IF "Region" \in DOMAIN m THEN m["Region"] ELSE <<>>
        /\ ~Has(m, "AccessKey") =>
               last.err = "missing required key for Creds: AccessKey"
        /\ Has(m, "AccessKey") /\ ~Has(m, "SecretKey") =>
               last.err = "missing required key for Creds: SecretKey"
        /\ Has(m, "AccessKey") /\ Has(m, "SecretKey") /\ ~Has(m, "SessionToken") =>
               last.err = "missing required key for Creds: SessionToken"

\* C3 witness: a map with AccessKey and SecretKey both unusable, for which
\* the error names AccessKey, the first of them.
C3_Witness ==
    /\ last.op = "New"
    /\ "AccessKey" \notin DOMAIN last.arg
    /\ "SecretKey" \in DOMAIN last.arg /\ last.arg["SecretKey"] = <<>>
    /\ last.err = "missing required key for Creds: AccessKey"

\* C4: SetLifetime(v) succeeds exactly when v = 0 or 900 <= v <= 3600 and a
\* rejected call leaves the stored lifetime unchanged; GetLifetime returns
\* 3600 when the last accepted value is 0 (or none was accepted) and that
\* value otherwise, always within [900, 3600].
C4_LifetimeContract ==
    /\ last.op = "SetLifetime" =>
          /\ (last.err = "nil") <=>
                 (last.arg.val = 0 \/ (900 <= last.arg.val /\ last.arg.val <= 3600))
          /\ last.err = "nil" => lifetimeInt = last.arg.val
          /\ last.err # "nil" => lifetimeInt = last.arg.self
    /\ last.op = "GetLifetime" =>
          /\ last.ret = IF lastAccepted = 0 THEN 3600 ELSE lastAccepted
          /\ 900 <= last.ret /\ last.ret <= 3600

\* C4 witness: GetLifetime after an accepted 900, the lower edge.
C4_Witness ==
    /\ last.op = "GetLifetime"
    /\ lastAccepted = 900
    /\ last.ret = 900

SameResult(a, b) == a.ret = b.ret /\ a.err = b.err

\* C5 as claimed: two successive GetMfaSerial calls with no SetMfaSerial call
\* between them make at most one identity lookup in total and return the
\* same result, whatever the lookup's outcome.
C5_OneLookupAnyOutcome ==
    \A i \in 1..(Len(serialHist) - 1) :
        /\ serialHist[i].lookups + serialHist[i + 1].lookups <= 1
        /\ SameResult(serialHist[i], serialHist[i + 1])

\* C5 amended: of two successive GetMfaSerial calls with no SetMfaSerial call
\* between them, when the first returns a serial the second makes no identity
\* lookup and returns the same serial, so that at most one lookup is made in
\* total; when the first fails nothing is stored and the second makes the
\* lookup again.
C5_OneLookupOnSuccess ==
    \A i \in 1..(Len(serialHist) - 1) :
        /\ serialHist[i].lookups <= 1
        /\ serialHist[i].err = "nil" =>
              /\ serialHist[i + 1].lookups = 0
              /\ SameResult(serialHist[i], serialHist[i + 1])
              /\ serialHist[i].ret # <<>>
        /\ serialHist[i].err # "nil" => serialHist[i + 1].lookups = 1

\* C5 witness: a first call that resolved the serial by a lookup, followed by
\* a second call.
C5_Witness ==
    /\ Len(serialHist) >= 2
    /\ serialHist[1].lookups = 1
    /\ serialHist[1].err = "nil"
    /\ serialHist[2].ret = MfaArnOf(PartAws, Acct1, NameAlice)

\* \d{12}, the account segment of the specification's MFA-ARN pattern
MatchTwelveDigits(s) == Len(s) = 12 /\ AllIn(s, Digits)

\* C6 as claimed: SetMfaSerial(v) succeeds and stores v exactly when v is
\* empty or matches arn:aws(-us-gov)?:iam::\d{12}:mfa/[\w+=,.@-]+, and
\* otherwise fails and leaves the stored serial unchanged.
C6_TwelveDigitAccount ==
    last.op = "SetMfaSerial" =>
        LET ok == last.arg.val = <<>> \/ MatchArnWith(last.arg.val, MatchTwelveDigits)
        IN  /\ (last.err = "nil") <=> ok
            /\ mfaSerial = IF ok THEN last.arg.val ELSE last.arg.self.mfaSerial

\* C7 as claimed: the stored MFA code is always empty or exactly 6 digits.
C7_CodeIsSixDigits ==
    mfaCode = <<>> \/ (Len(mfaCode) = 6 /\ AllIn(mfaCode, Digits))

\* C8 as claimed: GetMfa returns true exactly when the most recent SetMfa
\* call passed true or the stored code is not empty.
C8_SetOrCode ==
    last.op = "GetMfa" => last.ret = (lastSetMfa \/ mfaCode # <<>>)

\* C8 amended: GetMfa returns true exactly when the most recent SetMfa call
\* passed true, or a GetMfa call made since that SetMfa call (this one
\* included) found a stored code that was not empty; it stores the value it
\* returns in useMfa and changes no other field.
C8_SetOrCodeSeen ==
    last.op = "GetMfa" =>
        /\ last.ret = (lastSetMfa \/ latched)
        /\ useMfa = last.ret
        /\ mfaSerial = last.arg.self.mfaSerial
        /\ mfaCode = last.arg.self.mfaCode
        /\ mfaPrompt = last.arg.self.mfaPrompt

\* C8 witness: GetMfa returns true although SetMfa never passed true and no
\* code is stored any more.
C8_Witness ==
    /\ last.op = "GetMfa"
    /\ last.ret = TRUE
    /\ ~lastSetMfa
    /\ mfaCode = <<>>

\* C9: NextRoleArn fails on an empty role before any identity lookup;
\* otherwise an identity error is returned as it is, no lookup following the
\* failed one, and when the lookups succeed the result is
\* arn:<partition>:iam::<account>:role/<role>, the account being the override
\* when given and the caller's own otherwise.
C9_NextRoleArnContract ==
    last.op = "NextRoleArn" =>
        LET a == last.arg IN
        /\ a.role = <<>> =>
              last.err = "role name cannot be empty" /\ last.lookups = 0
        /\ a.role # <<>> /\ a.out1 # "ok" =>
              last.err = a.out1 /\ last.lookups = 1
        /\ a.role # <<>> /\ a.out1 = "ok" /\ a.out2 # "ok" =>
              last.err = a.out2 /\ last.lookups = 2
        /\ a.role # <<>> /\ a.out1 = "ok" /\ a.out2 = "ok" =>
              /\ last.err = "nil"
              /\ \A part \in Partitions, acct \in Accounts :
                    a.id = CallerOf(part, acct) =>
                        last.ret =
                            StrArn \o part \o StrIam
                            \o (IF a.inputAccountID # <<>>
                                THEN a.inputAccountID ELSE acct)
                            \o StrRole \o a.role

\* C9 witness: the specification's example, role deploy with no override for
\* the caller arn:aws:iam::222222222222:user/bob.
C9_Witness ==
    /\ last.op = "NextRoleArn"
    /\ last.arg.role = NameDeploy
    /\ last.arg.inputAccountID = <<>>
    /\ last.arg.id = CallerOf(PartAws, Acct2)
    /\ last.ret = Cat(<<StrArn, PartAws, StrIam, Acct2, StrRole, NameDeploy>>)

\* C10: when MFA is not enabled and no code is stored, configureMfa returns
\* no error, leaves the request as it was, invokes no prompt, makes no
\* identity lookup and leaves the stored serial and code unchanged.
C10_DisabledIsNoOp ==
    ( /\ last.op = "configureMfa"
      /\ ~last.arg.self.useMfa
      /\ last.arg.self.mfaCode = <<>> )
    => /\ last.err = "nil"
       /\ last.ret = last.arg.req
       /\ last.prompts = 0
       /\ last.lookups = 0
       /\ mfaSerial = last.arg.self.mfaSerial
       /\ mfaCode = last.arg.self.mfaCode

\* C10 witness: configureMfa, as the third call on an Mfa that is then
\* disabled, on a request that already carries MFA fields.
C10_Witness ==
    /\ last.op = "configureMfa"
    /\ ~last.arg.self.useMfa
    /\ last.arg.self.mfaCode = <<>>
    /\ last.arg.req.TokenCode # NilPtr
    /\ steps = 3

====
